---- MODULE Spec2Model ----
(***************************************************************************)
(* State-machine model of the RAG agent server (src/src/agent-server.ts)   *)
(* and of the retrieval adapter it calls (src/src/vectorStore.ts).         *)
(*                                                                         *)
(* The server runs on the single-threaded JavaScript event loop: code      *)
(* between two awaits on external work runs atomically.  One action of     *)
(* the model is one such run: the arrival of a request, or the completion  *)
(* (success or failure) of an external call a request is waiting for,      *)
(* followed by everything the code does until it waits again or responds.  *)
(***************************************************************************)
EXTENDS Integers, Sequences, FiniteSets, TLC

\* ------------------------------------------------------------------------
\* Bounds
\* ------------------------------------------------------------------------
\* Number of requests that arrive (concurrently or one after another).
MaxReqs == 2

Reqs == 1..MaxReqs

\* ------------------------------------------------------------------------
\* Values
\* ------------------------------------------------------------------------
\* A field that is missing from a JSON body (JavaScript undefined).
Absent == "<undefined>"

\* Request bodies that arrive: message and session_id, each possibly missing.
Body(message, session_id) == [message |-> message, session_id |-> session_id]

RequestBodies ==
  { Body("hi", "s1"), Body("WeaTher?", "s1"), Body("hi", "s2"),
    Body("hi", "constructor"),
    Body(Absent, "s1"), Body("hi", Absent) }

\* Property names every object literal inherits from Object.prototype.
\* sessionMemory is created as {} (agent-server.ts:18), so a lookup of one
\* of these keys finds the inherited value, which is truthy and not iterable.
ObjectPrototypeKeys == {"constructor"}

\* The characters of the message texts (String is a sequence of characters).
Chars(s) ==
  CASE s = "hi"       -> <<"h", "i">>
    [] s = "WeaTher?" -> <<"W", "e", "a", "T", "h", "e", "r", "?">>
    [] OTHER          -> <<>>

\* String.prototype.toLowerCase on the letters in use.
LowerChar(c) ==
  CASE c = "W" -> "w"
    [] c = "E" -> "e"
    [] c = "A" -> "a"
    [] c = "T" -> "t"
    [] c = "H" -> "h"
    [] c = "R" -> "r"
    [] c = "X" -> "x"
    [] OTHER   -> c

\* Variant: the message is searched as written, without lower-casing.
toLowerCase_asWritten(cs) == cs

toLowerCase(cs) == [i \in 1..Len(cs) |-> LowerChar(cs[i])]

\* String.prototype.includes: needle occurs as a contiguous substring.
includes(cs, needle) ==
  \E i \in 0..(Len(cs) - Len(needle)) :
    \A j \in 1..Len(needle) : cs[i + j] = needle[j]

\* The three fallback strings of generateWithGemini and the one of
\* generateRAGResponse's catch block.
FallbackNotOk      == "Sorry, I'm having trouble generating a response right now."
FallbackFormat     == "I received an unexpected response format from the AI service."
FallbackTransport  == "Sorry, I encountered an error while generating a response."
FallbackRAG        == "Sorry, I encountered an error while generating a response."

ValidationErrorBody == "Both message and session_id are required"
InternalErrorBody   == "Internal server error"

\* JavaScript truthiness of a string-or-undefined value.
Truthy(v) == v # Absent /\ v # ""

NoResponse == "<none>"


\* ------------------------------------------------------------------------
\* State
\* ------------------------------------------------------------------------
VARIABLES
  sessionMemory,   \* own properties of the sessionMemory object: id -> messages
  localEmbedder,   \* TRUE once the embedding model has been stored
  pipelineCalls,   \* number of pipeline(...) model loads started
  req,             \* per request: position in the handler and its locals
  boot,            \* start-up: position in startServer / initializeVectorStore
  probe            \* a helper function applied on its own: input and result

vars == <<sessionMemory, localEmbedder, pipelineCalls, req, boot, probe>>

\* ------------------------------------------------------------------------
\* Session memory (agent-server.ts:17-24)
\* ------------------------------------------------------------------------
\* A message as stored.  rid is a history tag naming the request that created
\* the message; no code reads it.
UserMessage(r, text)      == [role |-> "user", content |-> text, rid |-> r]
AssistantMessage(r, text) == [role |-> "assistant", content |-> text, rid |-> r]

\* sessionMemory[sessionId]: an own property, else a property inherited from
\* Object.prototype, else undefined.
Lookup(mem, sid) ==
  IF sid \in DOMAIN mem THEN [kind |-> "array", value |-> mem[sid]]
  ELSE IF sid \in ObjectPrototypeKeys THEN [kind |-> "inherited", value |-> <<>>]
  ELSE [kind |-> "undefined", value |-> <<>>]

\* sessionMemory[sessionId] || []
OrEmpty(v) == IF v.kind = "undefined" THEN [kind |-> "array", value |-> <<>>] ELSE v

\* Variant: one history shared by all sessions (the first one created).
getSessionMessages_shared(mem, sid) ==
  IF DOMAIN mem = {} THEN OrEmpty(Lookup(mem, sid))
  ELSE [kind |-> "array",
        value |-> mem[CHOOSE k \in DOMAIN mem : \A j \in DOMAIN mem : Len(mem[j]) <= Len(mem[k])]]

getSessionMessages(mem, sid) == OrEmpty(Lookup(mem, sid))

\* [...x, message] throws a TypeError when x is not iterable.
AddThrows(mem, sid) == OrEmpty(Lookup(mem, sid)).kind # "array"

\* Variant: the stored list is replaced by the new message alone.
addMessageToSession_overwrite(mem, sid, msg) ==
  [k \in DOMAIN mem \cup {sid} |-> IF k = sid THEN <<msg>> ELSE mem[k]]

\* Variant: the new message is put in front of the stored list.
addMessageToSession_prepend(mem, sid, msg) ==
  [k \in DOMAIN mem \cup {sid} |->
     IF k = sid THEN <<msg>> \o OrEmpty(Lookup(mem, sid)).value ELSE mem[k]]

addMessageToSession(mem, sid, msg) ==
  [k \in DOMAIN mem \cup {sid} |->
     IF k = sid THEN Append(OrEmpty(Lookup(mem, sid)).value, msg) ELSE mem[k]]

\* Variant: slice(0, n), the first n elements.
sliceLast_first(arr, n) ==
  IF Len(arr) <= n THEN arr ELSE SubSeq(arr, 1, n)

\* Array.prototype.slice(-n): the last n elements, in order.
sliceLast(arr, n) ==
  IF Len(arr) <= n THEN arr ELSE SubSeq(arr, Len(arr) - n + 1, Len(arr))

\* ------------------------------------------------------------------------
\* Plugins (agent-server.ts:26-40)
\* ------------------------------------------------------------------------
NoPlugin == "<null>"

\* A message value: a string with its characters, or a value that is not a
\* string (a number, say), on which .toLowerCase is not a function.
MessageValue(isString, chars) == [isString |-> isString, chars |-> chars]

\* The try block of detectPlugin (agent-server.ts:33-34): .toLowerCase throws
\* a TypeError on a value that is not a string.
DetectTry(v) ==
  IF ~v.isString THEN [threw |-> TRUE, value |-> NoPlugin]
  ELSE IF includes(toLowerCase(v.chars), <<"w", "e", "a", "t", "h", "e", "r">>)
  THEN [threw |-> FALSE, value |-> "weather"]
  ELSE [threw |-> FALSE, value |-> NoPlugin]

\* detectPlugin with its catch block, which returns null (agent-server.ts:35-38).
detectPluginValue(v) ==
  IF DetectTry(v).threw THEN [threw |-> FALSE, value |-> NoPlugin] ELSE DetectTry(v)

detectPlugin(message) == detectPluginValue(MessageValue(TRUE, Chars(message))).value

\* plugins.weather
weather(location) == "Weather in " \o location \o ": 24°C, Sunny"

\* ------------------------------------------------------------------------
\* Retrieval (vectorStore.ts:145-172)
\* ------------------------------------------------------------------------
\* An optional value is <<>> (missing) or <<v>>.
Match(content, source, score) == [content |-> content, source |-> source, score |-> score]

\* Answers of index.query: results.matches missing, empty, or a list of
\* matches, some without metadata fields or score.
QueryResponses ==
  { [hasMatches |-> FALSE, matches |-> <<>>],
    [hasMatches |-> TRUE,  matches |-> <<>>],
    [hasMatches |-> TRUE,  matches |-> << Match(<<"chunk A">>, <<"a.md">>, <<90>>),
                                          Match(<<"chunk B">>, <<>>, <<>>) >>] }

\* x || default, for an optional x whose falsy value is given.
OrDefault(opt, falsy, default) ==
  IF opt = <<>> THEN default ELSE IF opt[1] = falsy THEN default ELSE opt[1]

\* Variant: the source is copied without the 'unknown' default.
MapMatch_rawSource(m) ==
  [content |-> OrDefault(m.content, "", ""),
   source  |-> OrDefault(m.source, "", ""),
   score   |-> OrDefault(m.score, 0, 0)]

\* results.matches.map(...)
MapMatch(m) ==
  [content |-> OrDefault(m.content, "", ""),
   source  |-> OrDefault(m.source, "", "unknown"),
   score   |-> OrDefault(m.score, 0, 0)]

MapMatches(results) ==
  IF ~results.hasMatches \/ Len(results.matches) = 0 THEN <<>>
  ELSE [i \in 1..Len(results.matches) |-> MapMatch(results.matches[i])]

\* ------------------------------------------------------------------------
\* Context assembly (agent-server.ts:105-127)
\* ------------------------------------------------------------------------
Part(kind, idx, tag, text) == [kind |-> kind, idx |-> idx, tag |-> tag, text |-> text]

\* Variant: the header is pushed whether or not there are chunks.
DocumentParts_alwaysHeader(chunks) ==
  <<Part("DocsHeader", 0, "", "Relevant Documents:")>> \o
  [i \in 1..Len(chunks) |-> Part("Doc", i, chunks[i].source, chunks[i].content)]

DocumentParts(chunks) ==
  IF Len(chunks) > 0
  THEN <<Part("DocsHeader", 0, "", "Relevant Documents:")>> \o
       [i \in 1..Len(chunks) |-> Part("Doc", i, chunks[i].source, chunks[i].content)]
  ELSE <<>>

PluginParts(pluginResult) ==
  IF Truthy(pluginResult)
  THEN <<Part("Plugin", 0, "", "Plugin Output: " \o pluginResult)>>
  ELSE <<>>

HistoryParts(window) ==
  IF Len(window) > 0
  THEN <<Part("HistoryHeader", 0, "", "Conversation History:")>> \o
       [i \in 1..Len(window) |->
          Part("History", i,
               IF window[i].role = "user" THEN "User" ELSE "AI",
               window[i].content)]
  ELSE <<>>

\* contextParts, in push order; join('\n\n') keeps the parts in this order.
BuildContext(chunks, pluginResult, window) ==
  DocumentParts(chunks) \o PluginParts(pluginResult) \o HistoryParts(window)

\* ------------------------------------------------------------------------
\* Generation client (agent-server.ts:43-88)
\* ------------------------------------------------------------------------
\* What the generation service does with one call: fetch rejects, or it
\* resolves with a status that is ok or not and a body that parses as JSON
\* or not; text is candidates[0].content.parts[0].text, <<>> when missing.
Behaviour(rejects, ok, jsonOk, text) ==
  [rejects |-> rejects, ok |-> ok, jsonOk |-> jsonOk, text |-> text]

GeneratedText == "Generated answer"

GeminiBehaviours ==
  { Behaviour(TRUE,  FALSE, FALSE, <<>>),
    Behaviour(FALSE, FALSE, FALSE, <<>>),
    Behaviour(FALSE, TRUE,  FALSE, <<>>),
    Behaviour(FALSE, TRUE,  TRUE,  <<>>),
    Behaviour(FALSE, TRUE,  TRUE,  <<"">>),
    Behaviour(FALSE, TRUE,  TRUE,  <<GeneratedText>>) }

\* The service answered 2xx with a JSON body that carries a non-empty text.
GenerationSucceeds(b) ==
  ~b.rejects /\ b.ok /\ b.jsonOk /\ b.text # <<>> /\ b.text # <<"">>

\* Variant: the extracted text is returned without the !generatedText check.
generateWithGemini_unchecked(b) ==
  IF b.rejects THEN FallbackTransport
  ELSE IF ~b.ok THEN FallbackNotOk
  ELSE IF ~b.jsonOk THEN FallbackTransport
  ELSE IF b.text = <<>> THEN Absent
  ELSE b.text[1]

\* The try block of generateWithGemini (agent-server.ts:45-83): it throws when
\* fetch rejects or response.json() rejects, else it returns a string.
GeminiTry(b) ==
  IF b.rejects THEN [threw |-> TRUE, value |-> Absent]
  ELSE IF ~b.ok THEN [threw |-> FALSE, value |-> FallbackNotOk]
  ELSE IF ~b.jsonOk THEN [threw |-> TRUE, value |-> Absent]
  ELSE IF b.text = <<>> THEN [threw |-> FALSE, value |-> FallbackFormat]
  ELSE IF b.text[1] = "" THEN [threw |-> FALSE, value |-> FallbackFormat]
  ELSE [threw |-> FALSE, value |-> b.text[1]]

\* Variant: no catch around the call; what the try block throws escapes.
GeminiCall_uncaught(b) == GeminiTry(b)

\* generateWithGemini with its catch block (agent-server.ts:84-87).
GeminiCall(b) ==
  IF GeminiTry(b).threw THEN [threw |-> FALSE, value |-> FallbackTransport]
  ELSE GeminiTry(b)

generateWithGemini(b) == GeminiCall(b).value

\* ------------------------------------------------------------------------
\* Requests
\* ------------------------------------------------------------------------
NoStatus == 0

InitReq ==
  [pc |-> "idle", message |-> Absent, session_id |-> Absent,
   relevantChunks |-> <<>>, lastTwoMessages |-> <<>>, pluginType |-> NoPlugin,
   pluginResult |-> Absent, context |-> <<>>, response |-> NoResponse,
   status |-> NoStatus, resBody |-> NoResponse, responses |-> 0,
   retrieval |-> "none", plugin |-> "none", generation |-> "none",
   appends |-> 0]

\* The start-up has ended with app.listen (agent-server.ts:175).
Listening == [pc |-> "listening"]

\* No helper function is being applied on its own.
NoProbe == [fn |-> "none"]

\* Before the server listens, initializeVectorStore has run (agent-server.ts
\* 173-175): with documents present it has embedded them, so the embedding
\* model is already loaded; without documents it returned before any
\* embedding and the model is not loaded yet.
Init ==
  /\ sessionMemory = [k \in {} |-> <<>>]
  /\ localEmbedder \in BOOLEAN
  /\ pipelineCalls = IF localEmbedder THEN 1 ELSE 0
  /\ req = [r \in Reqs |-> InitReq]
  /\ boot = Listening
  /\ probe = NoProbe

\* Variant: only the message is validated.
Invalid_messageOnly(message, session_id) == ~Truthy(message)

\* !message || !session_id
Invalid(message, session_id) == ~Truthy(message) \/ ~Truthy(session_id)

\* Variant: the handler returns without answering.
Responded_unanswered(rq, code, text) ==
  [rq EXCEPT !.pc = "done", !.status = code, !.resBody = text,
             !.relevantChunks = <<>>, !.lastTwoMessages = <<>>,
             !.pluginType = NoPlugin, !.pluginResult = Absent,
             !.context = <<>>]

\* res.status(code).json(body): the request is answered and the handler
\* returns, which ends the lifetime of its local variables.
Responded(rq, code, text) ==
  [rq EXCEPT !.pc = "done", !.status = code, !.resBody = text,
             !.responses = @ + 1,
             !.relevantChunks = <<>>, !.lastTwoMessages = <<>>,
             !.pluginType = NoPlugin, !.pluginResult = Absent,
             !.context = <<>>]

\* agent-server.ts:160-169, from the moment generateRAGResponse has settled
\* with `response`: record the assistant message and answer.
FinishRequest(r, rq, response) ==
  IF AddThrows(sessionMemory, rq.session_id)
  THEN /\ sessionMemory' = sessionMemory
       /\ req' = [req EXCEPT ![r] = Responded([rq EXCEPT !.response = response],
                                             500, InternalErrorBody)]
  ELSE /\ sessionMemory' = addMessageToSession(sessionMemory, rq.session_id,
                                               AssistantMessage(r, response))
       /\ req' = [req EXCEPT ![r] =
                    Responded([rq EXCEPT !.response = response, !.appends = @ + 1],
                              200, response)]

\* The catch block of generateRAGResponse (agent-server.ts:140-143).
RAGCatch(r, rq) == FinishRequest(r, rq, FallbackRAG)

\* agent-server.ts:105-139: build the context and call the generation client.
AssembleAndGenerate(rq) ==
  [rq EXCEPT !.context = BuildContext(rq.relevantChunks, rq.pluginResult,
                                      rq.lastTwoMessages),
             !.generation = "pending",
             !.pc = "fetching"]

\* POST /agent/message arrives (agent-server.ts:147-160), up to the first
\* await inside getRelevantChunks.  Requests are numbered in order of arrival.
PostMessage(r, message, session_id) ==
  /\ req[r].pc = "idle"
  /\ UNCHANGED <<boot, probe>>
  /\ \A q \in Reqs : q < r => req[q].pc # "idle"
  /\ LET rq == [req[r] EXCEPT !.message = message, !.session_id = session_id]
     IN IF Invalid(message, session_id)
        THEN /\ req' = [req EXCEPT ![r] = Responded(rq, 400, ValidationErrorBody)]
             /\ UNCHANGED <<sessionMemory, localEmbedder, pipelineCalls>>
        ELSE IF AddThrows(sessionMemory, session_id)
        THEN /\ req' = [req EXCEPT ![r] = Responded(rq, 500, InternalErrorBody)]
             /\ UNCHANGED <<sessionMemory, localEmbedder, pipelineCalls>>
        ELSE /\ sessionMemory' = addMessageToSession(sessionMemory, session_id,
                                                     UserMessage(r, message))
             /\ req' = [req EXCEPT ![r] =
                          [rq EXCEPT !.appends = @ + 1, !.retrieval = "pending",
                                     !.pc = IF localEmbedder THEN "embedding"
                                            ELSE "loadingModel"]]
             /\ pipelineCalls' = IF localEmbedder THEN pipelineCalls
                                 ELSE pipelineCalls + 1
             /\ UNCHANGED localEmbedder

\* pipeline(...) resolves (vectorStore.ts:32-37, 41-45).
ModelLoaded(r) ==
  /\ req[r].pc = "loadingModel"
  /\ UNCHANGED <<boot, probe>>
  /\ localEmbedder' = TRUE
  /\ req' = [req EXCEPT ![r].pc = "embedding"]
  /\ UNCHANGED <<sessionMemory, pipelineCalls>>

\* pipeline(...) rejects.
ModelLoadFailed(r) ==
  /\ req[r].pc = "loadingModel"
  /\ UNCHANGED <<boot, probe>>
  /\ RAGCatch(r, [req[r] EXCEPT !.retrieval = "failed"])
  /\ UNCHANGED <<localEmbedder, pipelineCalls>>

\* embedder(text) resolves; index.query is issued (vectorStore.ts:45-53,151-157).
EmbedDone(r) ==
  /\ req[r].pc = "embedding"
  /\ UNCHANGED <<boot, probe>>
  /\ req' = [req EXCEPT ![r].pc = "querying"]
  /\ UNCHANGED <<sessionMemory, localEmbedder, pipelineCalls>>

\* embedder(text) rejects.
EmbedFailed(r) ==
  /\ req[r].pc = "embedding"
  /\ UNCHANGED <<boot, probe>>
  /\ RAGCatch(r, [req[r] EXCEPT !.retrieval = "failed"])
  /\ UNCHANGED <<localEmbedder, pipelineCalls>>

\* index.query rejects (vectorStore.ts:168-171, agent-server.ts:140-143).
QueryFailed(r) ==
  /\ req[r].pc = "querying"
  /\ UNCHANGED <<boot, probe>>
  /\ RAGCatch(r, [req[r] EXCEPT !.retrieval = "failed"])
  /\ UNCHANGED <<localEmbedder, pipelineCalls>>

\* index.query resolves (vectorStore.ts:159-167, agent-server.ts:94-103).
QueryDone(r, results) ==
  /\ req[r].pc = "querying"
  /\ UNCHANGED <<boot, probe>>
  /\ LET rq == [req[r] EXCEPT
                  !.retrieval = "ok",
                  !.relevantChunks = MapMatches(results),
                  !.lastTwoMessages =
                     sliceLast(getSessionMessages(sessionMemory, req[r].session_id).value, 2),
                  !.pluginType = detectPlugin(req[r].message)]
     IN req' = [req EXCEPT ![r] =
                  IF rq.pluginType # NoPlugin
                  THEN [rq EXCEPT !.plugin = "pending", !.pc = "plugin"]
                  ELSE AssembleAndGenerate(rq)]
  /\ UNCHANGED <<sessionMemory, localEmbedder, pipelineCalls>>

\* The plugin capability resolves (agent-server.ts:103).
PluginDone(r) ==
  /\ req[r].pc = "plugin"
  /\ UNCHANGED <<boot, probe>>
  /\ req' = [req EXCEPT ![r] =
               AssembleAndGenerate([req[r] EXCEPT !.plugin = "ok",
                                      !.pluginResult = weather(req[r].message)])]
  /\ UNCHANGED <<sessionMemory, localEmbedder, pipelineCalls>>

\* The plugin capability rejects (agent-server.ts:103, 140-143).
PluginFailed(r) ==
  /\ req[r].pc = "plugin"
  /\ UNCHANGED <<boot, probe>>
  /\ RAGCatch(r, [req[r] EXCEPT !.plugin = "failed"])
  /\ UNCHANGED <<localEmbedder, pipelineCalls>>

\* The generation call settles (agent-server.ts:45-87, 160-165).
GenerationReturns(r, b) ==
  /\ req[r].pc = "fetching"
  /\ UNCHANGED <<boot, probe>>
  /\ FinishRequest(r, [req[r] EXCEPT !.generation =
                         IF GenerationSucceeds(b) THEN "ok" ELSE "failed"],
                   generateWithGemini(b))
  /\ UNCHANGED <<localEmbedder, pipelineCalls>>

Next ==
  \/ \E r \in Reqs, body \in RequestBodies :
        PostMessage(r, body.message, body.session_id)
  \/ \E r \in Reqs : ModelLoaded(r)
  \/ \E r \in Reqs : ModelLoadFailed(r)
  \/ \E r \in Reqs : EmbedDone(r)
  \/ \E r \in Reqs : EmbedFailed(r)
  \/ \E r \in Reqs, results \in QueryResponses : QueryDone(r, results)
  \/ \E r \in Reqs : QueryFailed(r)
  \/ \E r \in Reqs : PluginDone(r)
  \/ \E r \in Reqs : PluginFailed(r)
  \/ \E r \in Reqs, b \in GeminiBehaviours : GenerationReturns(r, b)

Spec == Init /\ [][Next]_vars

\* The external call request r is waiting for settles: the model load, the
\* embedding, the index query, the plugin or the generation call resolves
\* or rejects.
ExternalCallSettles(r) ==
  \/ ModelLoaded(r) \/ ModelLoadFailed(r)
  \/ EmbedDone(r) \/ EmbedFailed(r)
  \/ (\E results \in QueryResponses : QueryDone(r, results)) \/ QueryFailed(r)
  \/ PluginDone(r) \/ PluginFailed(r)
  \/ \E b \in GeminiBehaviours : GenerationReturns(r, b)

\* The server under the assumption that no external call stays pending
\* for ever.
SpecLive == Spec /\ \A r \in Reqs : WF_vars(ExternalCallSettles(r))


\* ------------------------------------------------------------------------
\* The helper functions applied on their own
\* ------------------------------------------------------------------------
\* Longest run of other characters put before and after the trigger word.
MaxPad == 1

\* getRelevantChunks(message, 3)
TopK == 3

SeqsUpTo(S, n) == UNION {[1..k -> S] : k \in 0..n}

TriggerWord == <<"w", "e", "a", "t", "h", "e", "r">>

UpperChar(c) ==
  CASE c = "w" -> "W"
    [] c = "e" -> "E"
    [] c = "a" -> "A"
    [] c = "t" -> "T"
    [] c = "h" -> "H"
    [] c = "r" -> "R"
    [] OTHER   -> c

\* The trigger word in every letter-casing.
Casings ==
  {[i \in 1..Len(TriggerWord) |->
      IF up[i] THEN UpperChar(TriggerWord[i]) ELSE TriggerWord[i]] :
   up \in [1..Len(TriggerWord) -> BOOLEAN]}

\* The same with one letter left out.
Without(cs, k) == SubSeq(cs, 1, k - 1) \o SubSeq(cs, k + 1, Len(cs))
NearMisses == {Without(cs, k) : cs \in Casings, k \in 1..Len(TriggerWord)}

Pads == SeqsUpTo({"x", " "}, MaxPad)

\* Messages given to detectPlugin: strings around the trigger word or a near
\* miss, and a value that is not a string.
MessageValues ==
  {MessageValue(TRUE, pre \o core \o post) :
     pre \in Pads, core \in Casings \cup NearMisses, post \in Pads}
  \cup {MessageValue(FALSE, <<>>)}

\* Every combination of what fetch and the response body can do.
GeminiAnswers ==
  {Behaviour(rejects, ok, jsonOk, text) :
     rejects \in BOOLEAN, ok \in BOOLEAN, jsonOk \in BOOLEAN,
     text \in {<<>>, <<"">>, <<GeneratedText>>}}

\* Matches the index can return: metadata fields and score may be missing;
\* scores are similarities in hundredths.
MatchVariants ==
  {Match(content, source, score) :
     content \in {<<"chunk">>, <<>>},
     source \in {<<"a.md">>, <<>>},
     score \in {<<90>>, <<0>>, <<-20>>, <<>>}}

\* The index ranks by score: the scores it reports never increase.
RankedByScore(ms) ==
  \A i, j \in 1..Len(ms) :
    (i < j /\ ms[i].score # <<>> /\ ms[j].score # <<>>) =>
      ms[i].score[1] >= ms[j].score[1]

\* Answers of index.query for topK = 3: no match list, or at most 3 matches.
IndexAnswers ==
  {[hasMatches |-> FALSE, matches |-> <<>>]} \cup
  {[hasMatches |-> TRUE, matches |-> ms] :
     ms \in {m \in SeqsUpTo(MatchVariants, TopK) : RankedByScore(m)}}

\* Inputs of the context assembly.
ChunkLists ==
  { <<>>,
    <<[content |-> "chunk A", source |-> "a.md", score |-> 90]>>,
    <<[content |-> "chunk A", source |-> "a.md", score |-> 90],
      [content |-> "chunk B", source |-> "unknown", score |-> 0]>> }

PluginResults == {Absent, "", weather("WeaTher?")}

Windows ==
  { <<>>,
    <<UserMessage(1, "hi")>>,
    <<AssistantMessage(1, GeneratedText), UserMessage(2, "WeaTher?")>> }

\* Longest text and largest chunk size given to chunkText.
MaxText == 5
MaxChunkSize == 3

\* Variant: the character at position end is taken too.
substring_inclusiveEnd(cs, start, end) ==
  SubSeq(cs, start + 1, IF end + 1 < Len(cs) THEN end + 1 ELSE Len(cs))

\* String.prototype.substring for 0 <= start <= end: the characters at the
\* 0-based positions start .. end - 1, end clamped to the length.
substring(cs, start, end) ==
  SubSeq(cs, start + 1, IF end < Len(cs) THEN end ELSE Len(cs))

\* The loop of chunkText (vectorStore.ts:58-60) from offset i on.
RECURSIVE ChunkLoop(_, _, _, _)
ChunkLoop(text, chunkSize, i, chunks) ==
  IF i < Len(text)
  THEN ChunkLoop(text, chunkSize, i + chunkSize,
                 Append(chunks, substring(text, i, i + chunkSize)))
  ELSE chunks

chunkText(text, chunkSize) == ChunkLoop(text, chunkSize, 0, <<>>)

\* Texts of a document and the chunk sizes tried; the program itself calls
\* chunkText with CHUNK_SIZE = 500 only.
Texts == SeqsUpTo({"a", "b"}, MaxText)
ChunkSizes == 1..MaxChunkSize

\* One application of a helper function to an input, with its result.
Probe(fn, in, out) == [fn |-> fn, in |-> in, out |-> out]

serverVars == <<sessionMemory, localEmbedder, pipelineCalls, req, boot>>

InitPure ==
  /\ sessionMemory = [k \in {} |-> <<>>]
  /\ localEmbedder = FALSE
  /\ pipelineCalls = 0
  /\ req = [r \in Reqs |-> InitReq]
  /\ boot = Listening
  /\ probe = NoProbe

ApplyDetectPlugin(v) ==
  /\ probe = NoProbe
  /\ probe' = Probe("detectPlugin", v, detectPluginValue(v))
  /\ UNCHANGED serverVars

ApplyGenerateWithGemini(b) ==
  /\ probe = NoProbe
  /\ probe' = Probe("generateWithGemini", b, GeminiCall(b))
  /\ UNCHANGED serverVars

ApplyMapMatches(results) ==
  /\ probe = NoProbe
  /\ probe' = Probe("getRelevantChunks", results, MapMatches(results))
  /\ UNCHANGED serverVars

ApplyChunkText(text, chunkSize) ==
  /\ probe = NoProbe
  /\ probe' = Probe("chunkText", [text |-> text, chunkSize |-> chunkSize],
                    chunkText(text, chunkSize))
  /\ UNCHANGED serverVars

ApplyBuildContext(chunks, pluginResult, window) ==
  /\ probe = NoProbe
  /\ probe' = Probe("buildContext",
                    [chunks |-> chunks, pluginResult |-> pluginResult, window |-> window],
                    BuildContext(chunks, pluginResult, window))
  /\ UNCHANGED serverVars

NextPure ==
  \/ probe = NoProbe /\ \E v \in MessageValues : ApplyDetectPlugin(v)
  \/ probe = NoProbe /\ \E b \in GeminiAnswers : ApplyGenerateWithGemini(b)
  \/ probe = NoProbe /\ \E results \in IndexAnswers : ApplyMapMatches(results)
  \/ probe = NoProbe /\
       \E text \in Texts, chunkSize \in ChunkSizes : ApplyChunkText(text, chunkSize)
  \/ probe = NoProbe /\
       \E chunks \in ChunkLists, pluginResult \in PluginResults, window \in Windows :
          ApplyBuildContext(chunks, pluginResult, window)

SpecPure == InitPure /\ [][NextPure]_vars

\* ------------------------------------------------------------------------
\* Start-up: startServer and initializeVectorStore
\* (agent-server.ts 173-181, vectorStore.ts 87-142)
\* ------------------------------------------------------------------------
MaxBatches == 2

\* The process is started at most this many times on the same documents.
MaxRuns == 2

\* vectorStore.ts:118
BATCH_SIZE == 50

\* The numbers of chunks loadDocuments may return: none, and for each batch
\* up to MaxBatches a list that ends with one chunk in it or fills it.
ChunkCounts ==
  {0} \cup {k * BATCH_SIZE + d : k \in 0..(MaxBatches - 1), d \in {1, BATCH_SIZE}}

\* The chunk at 0-based position p of the list loadDocuments returns
\* (vectorStore.ts:73-83).
Chunk(p) == [source |-> "a.md", part |-> p]
Documents(n) == [k \in 1..n |-> Chunk(k - 1)]

\* Array.prototype.slice for 0 <= start <= end, end clamped to the length.
slice(s, start, end) == SubSeq(s, start + 1, IF end < Len(s) THEN end ELSE Len(s))

\* Variant: the id counts within the batch only.
VectorId_batchLocal(i, idx) == <<"doc-", idx>>

\* The id `doc-${i + idx}` of vectorStore.ts:125.
VectorId(i, idx) == <<"doc-", i + idx>>

\* vectorStore.ts:124-131: the vectors of the batch that starts at offset i;
\* idx is the 0-based position within the batch.
Vectors(batch, i) ==
  [j \in 1..Len(batch) |-> [id |-> VectorId(i, j - 1), chunk |-> batch[j]]]

\* One call of index.upsert (vectorStore.ts:133): its vectors, and whether
\* the index was queryable when the call was issued.
Upsert(vectors, ready) == [vectors |-> vectors, indexReady |-> ready]

\* An id-to-chunk mapping with nothing in it.
NoVectors == [id \in {} |-> Chunk(0)]

\* The mapping after the vectors are written over it; the later of two
\* vectors with the same id stays.
Written(mapping, vectors) ==
  LET ids == {vectors[j].id : j \in 1..Len(vectors)}
      last(id) == CHOOSE j \in 1..Len(vectors) :
                    /\ vectors[j].id = id
                    /\ \A k \in (j + 1)..Len(vectors) : vectors[k].id # id
  IN [id \in DOMAIN mapping \cup ids |->
        IF id \in ids THEN vectors[last(id)].chunk ELSE mapping[id]]

\* No run has completed yet.
NoRun == [n |-> -1, written |-> NoVectors]

\* The start-up before startServer runs.  documents, indexExists,
\* indexReady and index are the documents directory and the index at the
\* vector database; the other fields are the position and locals of
\* startServer and initializeVectorStore, and what the run has written.
InitBoot(exists, documents) ==
  [pc |-> "start", run |-> 1, documents |-> documents, n |-> 0, i |-> 0,
   indexExists |-> exists, indexReady |-> exists, index |-> NoVectors,
   listed |-> FALSE, found |-> FALSE, created |-> FALSE, waited |-> FALSE,
   upserts |-> <<>>, written |-> NoVectors, previous |-> NoRun,
   completed |-> FALSE, failedAt |-> "none"]

InitStartup ==
  /\ sessionMemory = [k \in {} |-> <<>>]
  /\ localEmbedder = FALSE
  /\ pipelineCalls = 0
  /\ req = [r \in Reqs |-> InitReq]
  /\ probe = NoProbe
  /\ \E exists \in BOOLEAN, documents \in ChunkCounts :
       boot = InitBoot(exists, documents)

\* Variant: the catch does not rethrow and start-up goes on.
InitFailed_swallowed(b) == [b EXCEPT !.pc = "initialized", !.failedAt = b.pc]

\* The catch of vectorStore.ts:138-141 rethrows, startServer's promise
\* rejects before app.listen and the rejection is only logged
\* (agent-server.ts:181).
InitFailed(b) == [b EXCEPT !.pc = "failed", !.failedAt = b.pc]

\* The head of the batch loop (vectorStore.ts:119-122): getLocalEmbeddings
\* first awaits initializeLocalEmbedder, which starts the model load when
\* localEmbedder is not set (lines 30-36).
StartBatch(b) ==
  IF localEmbedder
  THEN /\ boot' = [b EXCEPT !.pc = "embedding"]
       /\ UNCHANGED <<localEmbedder, pipelineCalls>>
  ELSE /\ boot' = [b EXCEPT !.pc = "loadingModel"]
       /\ pipelineCalls' = pipelineCalls + 1
       /\ UNCHANGED localEmbedder

\* vectorStore.ts:89-96: no documents returns at once; otherwise the index
\* list is requested.
LoadDocuments ==
  /\ boot.pc = "start"
  /\ boot' = IF boot.documents = 0
             THEN [boot EXCEPT !.pc = "initialized", !.completed = TRUE]
             ELSE [boot EXCEPT !.pc = "listing", !.n = boot.documents, !.listed = TRUE]
  /\ UNCHANGED <<sessionMemory, localEmbedder, pipelineCalls, req, probe>>

\* readdirSync or readFileSync throws (vectorStore.ts:71-76).
LoadDocumentsFailed ==
  /\ boot.pc = "start"
  /\ boot' = InitFailed(boot)
  /\ UNCHANGED <<sessionMemory, localEmbedder, pipelineCalls, req, probe>>

\* vectorStore.ts:96-119: listIndexes answers; a missing index is created,
\* an index that is there goes straight to the batch loop.
ListIndexesDone ==
  /\ boot.pc = "listing"
  /\ IF boot.indexExists
     THEN StartBatch([boot EXCEPT !.found = TRUE])
     ELSE /\ boot' = [boot EXCEPT !.pc = "creating"]
          /\ UNCHANGED <<localEmbedder, pipelineCalls>>
  /\ UNCHANGED <<sessionMemory, req, probe>>

ListIndexesFailed ==
  /\ boot.pc = "listing"
  /\ boot' = InitFailed(boot)
  /\ UNCHANGED <<sessionMemory, localEmbedder, pipelineCalls, req, probe>>

\* vectorStore.ts:98-112: createIndex has resolved and the 60000 ms timer is
\* set.  The index exists from now on; it becomes queryable on its own.
CreateIndexDone ==
  /\ boot.pc = "creating"
  /\ boot' = [boot EXCEPT !.pc = "waiting", !.created = TRUE, !.indexExists = TRUE]
  /\ UNCHANGED <<sessionMemory, localEmbedder, pipelineCalls, req, probe>>

CreateIndexFailed ==
  /\ boot.pc = "creating"
  /\ boot' = InitFailed(boot)
  /\ UNCHANGED <<sessionMemory, localEmbedder, pipelineCalls, req, probe>>

\* The vector database finishes setting up the created index.  Nothing in
\* the program observes this step.
IndexBecomesReady ==
  /\ boot.indexExists /\ ~boot.indexReady
  /\ boot' = [boot EXCEPT !.indexReady = TRUE]
  /\ UNCHANGED <<sessionMemory, localEmbedder, pipelineCalls, req, probe>>

\* vectorStore.ts:112-122: the timer fires and the batch loop starts.
WaitElapsed ==
  /\ boot.pc = "waiting"
  /\ StartBatch([boot EXCEPT !.waited = TRUE])
  /\ UNCHANGED <<sessionMemory, req, probe>>

\* vectorStore.ts:32-37 during start-up.
BootModelLoaded ==
  /\ boot.pc = "loadingModel"
  /\ localEmbedder' = TRUE
  /\ boot' = [boot EXCEPT !.pc = "embedding"]
  /\ UNCHANGED <<sessionMemory, pipelineCalls, req, probe>>

BootModelLoadFailed ==
  /\ boot.pc = "loadingModel"
  /\ boot' = InitFailed(boot)
  /\ UNCHANGED <<sessionMemory, localEmbedder, pipelineCalls, req, probe>>

\* vectorStore.ts:120-133: the batch documents.slice(i, i + BATCH_SIZE) is
\* embedded, its vectors get the ids doc-<i + idx> and index.upsert is
\* called.
BatchEmbedded ==
  /\ boot.pc = "embedding"
  /\ LET batch == slice(Documents(boot.n), boot.i, boot.i + BATCH_SIZE)
     IN boot' = [boot EXCEPT !.pc = "upserting",
                             !.upserts = Append(@, Upsert(Vectors(batch, boot.i),
                                                          boot.indexReady))]
  /\ UNCHANGED <<sessionMemory, localEmbedder, pipelineCalls, req, probe>>

BatchEmbedFailed ==
  /\ boot.pc = "embedding"
  /\ boot' = InitFailed(boot)
  /\ UNCHANGED <<sessionMemory, localEmbedder, pipelineCalls, req, probe>>

\* vectorStore.ts:133-137, 119: the upsert resolved, which takes a
\* queryable index; i += BATCH_SIZE and the loop goes on or ends.
UpsertDone ==
  /\ boot.pc = "upserting"
  /\ boot.indexReady
  /\ LET vectors == boot.upserts[Len(boot.upserts)].vectors
         stored == [boot EXCEPT !.index = Written(@, vectors),
                                !.written = Written(@, vectors),
                                !.i = @ + BATCH_SIZE]
     IN IF stored.i < boot.n
        THEN StartBatch(stored)
        ELSE /\ boot' = [stored EXCEPT !.pc = "initialized", !.completed = TRUE]
             /\ UNCHANGED <<localEmbedder, pipelineCalls>>
  /\ UNCHANGED <<sessionMemory, req, probe>>

UpsertFailed ==
  /\ boot.pc = "upserting"
  /\ boot' = InitFailed(boot)
  /\ UNCHANGED <<sessionMemory, localEmbedder, pipelineCalls, req, probe>>

\* agent-server.ts:174-175: initializeVectorStore resolved, app.listen.
StartListening ==
  /\ boot.pc = "initialized"
  /\ boot' = [boot EXCEPT !.pc = "listening"]
  /\ UNCHANGED <<sessionMemory, localEmbedder, pipelineCalls, req, probe>>

\* The process is stopped and started again on the same documents; module
\* state starts afresh, the index at the database stays.
Restart ==
  /\ boot.pc \in {"listening", "failed"}
  /\ boot.run < MaxRuns
  /\ boot' = [InitBoot(boot.indexExists, boot.documents) EXCEPT
                !.run = boot.run + 1,
                !.indexReady = boot.indexReady,
                !.index = boot.index,
                !.previous = IF boot.completed
                             THEN [n |-> boot.n, written |-> boot.written]
                             ELSE boot.previous]
  /\ localEmbedder' = FALSE
  /\ pipelineCalls' = 0
  /\ UNCHANGED <<sessionMemory, req, probe>>

NextStartup ==
  \/ LoadDocuments
  \/ LoadDocumentsFailed
  \/ ListIndexesDone
  \/ ListIndexesFailed
  \/ CreateIndexDone
  \/ CreateIndexFailed
  \/ IndexBecomesReady
  \/ WaitElapsed
  \/ BootModelLoaded
  \/ BootModelLoadFailed
  \/ BatchEmbedded
  \/ BatchEmbedFailed
  \/ UpsertDone
  \/ UpsertFailed
  \/ StartListening
  \/ Restart

SpecInit == InitStartup /\ [][NextStartup]_vars

\* ------------------------------------------------------------------------
\* Properties
\* ------------------------------------------------------------------------
SessionIds == {"s1", "s2", "constructor"}

\* The stored history of a session; empty when the session has no entry.
Hist(s) == IF s \in DOMAIN sessionMemory THEN sessionMemory[s] ELSE <<>>
HistAfter(s) == IF s \in DOMAIN sessionMemory' THEN sessionMemory'[s] ELSE <<>>

Done(r) == req[r].pc = "done"
AllDone == \A r \in Reqs : Done(r)
Valid(r) == req[r].message # Absent /\ req[r].session_id # Absent
InHist(s, m) == \E i \in 1..Len(Hist(s)) : Hist(s)[i] = m

\* Number of appends made by the requests that carry session id s.
AppendsTo(s) ==
  Cardinality({p \in Reqs \X (1..2) :
                 req[p[1]].session_id = s /\ p[2] <= req[p[1]].appends})

\* C1: once all requests have completed, the history of every session holds
\* every user and assistant message that was appended to it, and its length
\* is the sum of the appends, 2 for every request that ran to its response.
C1_NoAppendLost ==
  AllDone =>
    /\ \A s \in SessionIds : Len(Hist(s)) = AppendsTo(s)
    /\ \A r \in Reqs : req[r].status = 200 =>
         /\ req[r].appends = 2
         /\ InHist(req[r].session_id, [role |-> "user", content |-> req[r].message, rid |-> r])
         /\ InHist(req[r].session_id, [role |-> "assistant", content |-> req[r].response, rid |-> r])

\* Two requests of one session ran concurrently (the second arrived before
\* the first answered) and both completed.
C1_Witness ==
  /\ AllDone
  /\ Len(Hist("s1")) = 4
  /\ Hist("s1")[1].rid = 1 /\ Hist("s1")[2].rid = 2
  /\ req[1].status = 200 /\ req[2].status = 200

\* C2: in every session history each request's user message is immediately
\* followed by the assistant message of the same request (or is still the
\* last entry), so the exchanges of two requests are never interleaved.
C2_ExchangesNotInterleaved ==
  \A s \in DOMAIN sessionMemory : \A i \in 1..Len(sessionMemory[s]) :
    sessionMemory[s][i].role = "user" =>
      \/ i = Len(sessionMemory[s])
      \/ /\ sessionMemory[s][i + 1].role = "assistant"
         /\ sessionMemory[s][i + 1].rid = sessionMemory[s][i].rid

\* Request a answered before request b of the same session arrived.
Sequential(a, b) ==
  /\ req[a].status = 200 /\ Valid(b) /\ req[b].pc # "idle"
  /\ req[a].session_id = req[b].session_id
  /\ \E i, j \in 1..Len(Hist(req[a].session_id)) :
       /\ i < j
       /\ Hist(req[a].session_id)[i].rid = a
       /\ Hist(req[a].session_id)[i].role = "assistant"
       /\ Hist(req[a].session_id)[j].rid = b

HasWindow(r) == req[r].pc \in {"plugin", "fetching"}
InWindow(r, m) ==
  \E i \in 1..Len(req[r].lastTwoMessages) : req[r].lastTwoMessages[i] = m

\* C3: for two sequential requests of one session, the history window of
\* the second holds the first request's user message and its assistant reply.
C3_WindowHoldsFirstExchange ==
  \A a, b \in Reqs :
    (Sequential(a, b) /\ HasWindow(b)) =>
      /\ InWindow(b, [role |-> "user", content |-> req[a].message, rid |-> a])
      /\ InWindow(b, [role |-> "assistant", content |-> req[a].response, rid |-> a])

\* C4: a request whose retrieval failed still has the generation client
\* invoked and is answered with the generation client's output.
C4_RetrievalFailureStillGenerates ==
  \A r \in Reqs :
    (Done(r) /\ req[r].retrieval = "failed") =>
      req[r].generation # "none" /\ req[r].status = 200

C6_ValidRequestGets200 ==
  \A r \in Reqs :
    (Done(r) /\ Valid(r)) =>
      req[r].status = 200 /\ req[r].resBody \notin {"", Absent, NoResponse}


\* The request that takes the step from its state `from` to done.
Answers(r, from) == req[r].pc = from /\ req'[r].pc = "done"

C7_StepAborts ==
  \A r \in Reqs :
    (Answers(r, "idle") /\ (req'[r].message = Absent \/ req'[r].session_id = Absent)) =>
      /\ req'[r].status = 400
      /\ req'[r].resBody = "Both message and session_id are required"
      /\ sessionMemory' = sessionMemory

C7_NoSideEffect ==
  \A r \in Reqs :
    (req[r].pc # "idle" /\ (req[r].message = Absent \/ req[r].session_id = Absent)) =>
      /\ req[r].pc = "done" /\ req[r].status = 400 /\ req[r].responses = 1
      /\ req[r].appends = 0
      /\ req[r].retrieval = "none" /\ req[r].plugin = "none"
      /\ req[r].generation = "none"

\* C7: a request whose body lacks message or session_id is answered 400 with
\* the fixed error body in the step that receives it, leaves the memory of
\* every session unchanged and makes no retrieval, plugin or generation call.
C7_ValidationAborts == [][C7_StepAborts]_vars /\ []C7_NoSideEffect

\* A request without session_id was answered while another session exists.
C7_Witness ==
  \E r \in Reqs :
    /\ Done(r) /\ req[r].message = "hi" /\ req[r].session_id = Absent
    /\ req[r].status = 400 /\ Len(Hist("s1")) > 0

Min(a, b) == IF a <= b THEN a ELSE b

\* The step in which request r reads its history window.
ReadsWindow(r) == req[r].pc = "querying" /\ req'[r].pc \in {"plugin", "fetching"}

C8_StepReadsLastTwo ==
  \A r \in Reqs :
    ReadsWindow(r) =>
      LET h == Hist(req[r].session_id)
          w == req'[r].lastTwoMessages
      IN /\ Len(w) = Min(2, Len(h))
         /\ \A i \in 1..Len(w) : w[i] = h[Len(h) - Len(w) + i]

\* The history lines of an assembled context are the window, oldest first.
C8_ContextUsesWindow ==
  \A r \in Reqs :
    /\ Len(req[r].lastTwoMessages) <= 2
    /\ req[r].pc = "fetching" =>
         LET lines == SelectSeq(req[r].context, LAMBDA part : part.kind = "History")
         IN /\ Len(lines) = Len(req[r].lastTwoMessages)
            /\ \A i \in 1..Len(lines) :
                 lines[i].text = req[r].lastTwoMessages[i].content

\* C8: the history window a request uses is exactly the last min(2, L)
\* messages of the stored history of its session at the time of the read,
\* oldest first, and never has more than 2 messages.
C8_WindowIsLastTwo == [][C8_StepReadsLastTwo]_vars /\ []C8_ContextUsesWindow

\* A window of 2 messages was read from a history of at least 3.
C8_Witness ==
  \E r \in Reqs :
    /\ req[r].pc = "fetching"
    /\ Len(req[r].lastTwoMessages) = 2
    /\ Len(Hist(req[r].session_id)) >= 3

\* Number of assistant messages request r has in the history of session s.
AssistantCount(r, s) ==
  Cardinality({i \in 1..Len(Hist(s)) :
                 Hist(s)[i].role = "assistant" /\ Hist(s)[i].rid = r})

\* C9: every request answered 200, and so every request whose generation
\* call failed, returns a non-empty string, and the one assistant message
\* the request recorded has exactly that string as content.
C9_RecordedEqualsReturned ==
  \A r \in Reqs :
    /\ (Done(r) /\ req[r].generation = "failed") => req[r].status = 200
    /\ (Done(r) /\ req[r].status = 200) =>
         /\ req[r].resBody \notin {"", Absent, NoResponse}
         /\ AssistantCount(r, req[r].session_id) = 1
         /\ InHist(req[r].session_id,
                   [role |-> "assistant", content |-> req[r].resBody, rid |-> r])

\* A request whose generation call returned a body without text was answered.
C9_Witness ==
  \E r \in Reqs :
    /\ Done(r) /\ req[r].generation = "failed" /\ req[r].status = 200
    /\ req[r].resBody = "I received an unexpected response format from the AI service."

C10_OwnMessagesOnly ==
  /\ \A s \in DOMAIN sessionMemory : \A i \in 1..Len(sessionMemory[s]) :
       req[sessionMemory[s][i].rid].session_id = s
  /\ \A r \in Reqs : \A i \in 1..Len(req[r].lastTwoMessages) :
       /\ req[req[r].lastTwoMessages[i].rid].session_id = req[r].session_id
       /\ InHist(req[r].session_id, req[r].lastTwoMessages[i])

C10_StepTouchesOwnSession ==
  \A s \in SessionIds :
    HistAfter(s) # Hist(s) =>
      \E r \in Reqs : req'[r] # req[r] /\ req'[r].session_id = s

\* C10: a request reads its history window only from messages appended by
\* requests of its own session id, and a step of a request changes only the
\* history stored under its own session id.
C10_SessionsIsolated == []C10_OwnMessagesOnly /\ [][C10_StepTouchesOwnSession]_vars

\* Two requests of distinct sessions are in flight together, each holding a
\* window read from its own session.
C10_Witness ==
  /\ req[1].session_id = "s1" /\ req[2].session_id = "s2"
  /\ req[1].pc = "fetching" /\ req[2].pc = "fetching"
  /\ Len(req[1].lastTwoMessages) = 1 /\ Len(req[2].lastTwoMessages) = 1


IsPrefix(a, b) == Len(a) <= Len(b) /\ \A i \in 1..Len(a) : a[i] = b[i]

C11_StepKeepsHistory ==
  \A s \in DOMAIN sessionMemory :
    /\ s \in DOMAIN sessionMemory'
    /\ Len(sessionMemory'[s]) >= Len(sessionMemory[s])
    /\ IsPrefix(sessionMemory[s], sessionMemory'[s])

\* C11: a session's history is append-only: no step makes it shorter, and the
\* history before a step is a prefix of the history after it.
C11_AppendOnly == [][C11_StepKeepsHistory]_vars

\* A history has grown to three messages while a request is still in flight.
C11_Witness ==
  /\ Len(Hist("s1")) = 3
  /\ \E r \in Reqs : req[r].pc = "fetching" /\ req[r].session_id = "s1"

\* C12: the embedding model load is started at most once per process,
\* however many embedding calls find the model not yet loaded.
C12_ModelLoadedOnce == pipelineCalls <= 1

\* The user message of request r precedes its assistant message in history h.
UserThenAssistant(r, h) ==
  \E i, j \in 1..Len(h) :
    /\ i < j
    /\ h[i].rid = r /\ h[i].role = "user"
    /\ h[j].rid = r /\ h[j].role = "assistant"

\* C17: each valid request passes its stages in order: user message recorded
\* before retrieval or plugin work starts, generation only after retrieval and
\* plugin work have finished, assistant message recorded only after the
\* generation has finished, response only after that; it appends exactly two
\* messages, user then assistant.
C17_StagesInOrder ==
  \A r \in Reqs :
    /\ (req[r].retrieval # "none" \/ req[r].plugin # "none") => req[r].appends >= 1
    /\ req[r].generation # "none" =>
         req[r].retrieval = "ok" /\ req[r].plugin \in {"none", "ok"}
    /\ req[r].appends = 2 => req[r].generation \in {"ok", "failed"}
    /\ req[r].status = 200 => req[r].appends = 2
    /\ (Done(r) /\ Valid(r)) =>
         /\ req[r].appends = 2
         /\ UserThenAssistant(r, Hist(req[r].session_id))

\* C18: append succeeds for every session identifier, creating the session
\* if absent and putting the new message last; get on an identifier without
\* a session returns the empty sequence.
C18_AppendAlwaysSucceeds ==
  /\ \A r \in Reqs :
       (req[r].pc # "idle" /\ Valid(r)) =>
         InHist(req[r].session_id,
                [role |-> "user", content |-> req[r].message, rid |-> r])
  /\ \A r \in Reqs :
       (req[r].pc # "idle" /\ Valid(r) /\ req[r].session_id \notin DOMAIN sessionMemory) =>
         getSessionMessages(sessionMemory, req[r].session_id).kind = "array"


SectionOf(part) ==
  CASE part.kind \in {"DocsHeader", "Doc"}        -> 1
    [] part.kind = "Plugin"                       -> 2
    [] part.kind \in {"HistoryHeader", "History"} -> 3

CountKind(parts, kind) == Cardinality({i \in 1..Len(parts) : parts[i].kind = kind})

\* C14: the assembled context leaves out a section, header and lines, when
\* its input is empty, and the sections present come in the order Documents,
\* Plugin Output, Conversation History.
C14_SectionsOmittedAndOrdered ==
  probe.fn = "buildContext" =>
    LET parts == probe.out
        nChunks == Len(probe.in.chunks)
        nWindow == Len(probe.in.window)
        hasPlugin == probe.in.pluginResult \notin {Absent, ""}
    IN /\ \A i, j \in 1..Len(parts) : i < j => SectionOf(parts[i]) <= SectionOf(parts[j])
       /\ CountKind(parts, "DocsHeader") = IF nChunks = 0 THEN 0 ELSE 1
       /\ CountKind(parts, "Doc") = nChunks
       /\ CountKind(parts, "Plugin") = IF hasPlugin THEN 1 ELSE 0
       /\ CountKind(parts, "HistoryHeader") = IF nWindow = 0 THEN 0 ELSE 1
       /\ CountKind(parts, "History") = nWindow
       /\ nChunks > 0 => parts[1].kind = "DocsHeader"
       /\ \A i \in 1..Len(parts) :
            parts[i].kind = "HistoryHeader" => i = Len(parts) - nWindow

\* A context assembled from no chunks, a plugin output and a history window.
C14_Witness ==
  /\ probe.fn = "buildContext"
  /\ Len(probe.in.chunks) = 0 /\ Len(probe.in.window) = 2
  /\ probe.in.pluginResult \notin {Absent, ""}
  /\ probe.out[1].kind = "Plugin" /\ probe.out[2].kind = "HistoryHeader"

\* The message has the trigger word at some position, each letter in either
\* casing.
ContainsTrigger(cs) ==
  \E i \in 0..(Len(cs) - 7) :
    /\ cs[i + 1] \in {"w", "W"} /\ cs[i + 2] \in {"e", "E"}
    /\ cs[i + 3] \in {"a", "A"} /\ cs[i + 4] \in {"t", "T"}
    /\ cs[i + 5] \in {"h", "H"} /\ cs[i + 6] \in {"e", "E"}
    /\ cs[i + 7] \in {"r", "R"}

\* C15: detectPlugin returns 'weather' for every message that contains
\* 'weather' in any letter-casing and null for every other message, and it
\* never raises, returning null for a message that is not a string.
C15_DetectsAnyCasing ==
  probe.fn = "detectPlugin" =>
    /\ ~probe.out.threw
    /\ probe.out.value =
         IF probe.in.isString /\ ContainsTrigger(probe.in.chars)
         THEN "weather" ELSE "<null>"

\* A message with the trigger word in mixed casing was detected.
C15_Witness ==
  /\ probe.fn = "detectPlugin"
  /\ probe.in.isString
  /\ \E i \in 1..Len(probe.in.chars) : probe.in.chars[i] = "W"
  /\ \E i \in 1..Len(probe.in.chars) : probe.in.chars[i] = "r"
  /\ probe.out.value = "weather"

\* C16: getRelevantChunks returns one chunk per match of the index, in the
\* index's order, nothing more when there are fewer than topK matches and an
\* empty sequence for an empty or absent match list; a missing score becomes
\* 0 and a missing source 'unknown'.
C16_OneChunkPerMatch ==
  probe.fn = "getRelevantChunks" =>
    LET ms == probe.in.matches
        out == probe.out
    IN /\ Len(out) = IF probe.in.hasMatches THEN Len(ms) ELSE 0
       /\ Len(out) <= TopK
       /\ \A i \in 1..Len(out) :
            /\ out[i].content = IF ms[i].content = <<>> THEN "" ELSE ms[i].content[1]
            /\ out[i].source = IF ms[i].source = <<>> THEN "unknown" ELSE ms[i].source[1]
            /\ out[i].score = IF ms[i].score = <<>> THEN 0 ELSE ms[i].score[1]

\* Two matches, fewer than topK, the second without score and source.
C16_Witness ==
  /\ probe.fn = "getRelevantChunks"
  /\ Len(probe.in.matches) = 2 /\ Len(probe.out) = 2
  /\ probe.in.matches[2].score = <<>> /\ probe.in.matches[2].source = <<>>
  /\ probe.out[2].score = 0 /\ probe.out[2].source = "unknown"

\* C20: the chunks returned by getRelevantChunks are in descending order of
\* score: each chunk's score is at least that of the next one.
C20_DescendingByScore ==
  probe.fn = "getRelevantChunks" =>
    \A i \in 1..(Len(probe.out) - 1) : probe.out[i].score >= probe.out[i + 1].score


\* C19: when the index does not exist initializeVectorStore creates it and
\* issues no upsert before the index has become queryable; when the index
\* exists it is not created again and no wait is performed before upserting.
C19_UpsertOnlyWhenReady ==
  /\ (boot.listed /\ ~boot.found /\ boot.upserts # <<>>) => boot.created /\ boot.waited
  /\ \A k \in 1..Len(boot.upserts) : boot.upserts[k].indexReady
  /\ boot.found => ~boot.created /\ ~boot.waited


\* The chunks put back together in order.
RECURSIVE Concat(_)
Concat(chunks) ==
  IF chunks = <<>> THEN <<>> ELSE Head(chunks) \o Concat(Tail(chunks))

\* C21: chunkText(text, n) splits the text into non-overlapping chunks of
\* fixed size: every chunk has at most n characters, every chunk but the
\* last has exactly n, no chunk is empty, an empty text gives no chunks and
\* the chunks concatenated in order are the text.
C21_ChunksPartitionText ==
  probe.fn = "chunkText" =>
    LET text == probe.in.text
        n == probe.in.chunkSize
        out == probe.out
    IN /\ \A k \in 1..Len(out) : Len(out[k]) <= n /\ out[k] # <<>>
       /\ \A k \in 1..(Len(out) - 1) : Len(out[k]) = n
       /\ \A k \in 1..Len(out) : \A j \in 1..Len(out[k]) :
            out[k][j] = text[(k - 1) * n + j]
       /\ text = <<>> => out = <<>>
       /\ Concat(out) = text

\* A text cut into two full chunks and a shorter last one.
C21_Witness ==
  /\ probe.fn = "chunkText"
  /\ Len(probe.in.text) = 5 /\ probe.in.chunkSize = 2
  /\ Len(probe.out) = 3 /\ Len(probe.out[3]) = 1


\* The places <<u, j>> of the vectors the run has handed to index.upsert.
UpsertedAt ==
  UNION {{<<u, j>> : j \in 1..Len(boot.upserts[u].vectors)} : u \in 1..Len(boot.upserts)}

VectorAt(at) == boot.upserts[at[1]].vectors[at[2]]

\* C22: a successful run of initializeVectorStore upserts every loaded chunk
\* exactly once, in batches of at most 50, under the id doc-<k> of its
\* position k in the list of loaded chunks; the ids of the run are pairwise
\* distinct, and a later run on the same documents writes the same
\* id-to-chunk mapping.
C22_EveryChunkOnceUnderItsId ==
  (boot.completed /\ boot.n > 0) =>
    /\ \A p \in 0..(boot.n - 1) :
         Cardinality({at \in UpsertedAt : VectorAt(at).chunk = Chunk(p)}) = 1
    /\ \A u \in 1..Len(boot.upserts) : Len(boot.upserts[u].vectors) <= 50
    /\ \A at \in UpsertedAt :
         \E p \in 0..(boot.n - 1) :
           VectorAt(at).chunk = Chunk(p) /\ VectorAt(at).id = <<"doc-", p>>
    /\ \A a, b \in UpsertedAt : a # b => VectorAt(a).id # VectorAt(b).id
    /\ boot.written = [id \in {<<"doc-", p>> : p \in 0..(boot.n - 1)} |-> Chunk(id[2])]
    /\ \A id \in DOMAIN boot.written : boot.index[id] = boot.written[id]
    /\ (boot.previous # NoRun /\ boot.previous.n = boot.n) =>
         boot.previous.written = boot.written

\* A second run has completed on the same two full batches as the first.
C22_Witness ==
  /\ boot.completed /\ boot.run = 2
  /\ boot.n = 100 /\ Len(boot.upserts) = 2
  /\ boot.previous.n = 100


C25_ListeningAfterSuccess ==
  /\ boot.pc = "listening" =>
       /\ boot.completed /\ boot.failedAt = "none"
       /\ boot.n = boot.documents
       /\ \A p \in 0..(boot.n - 1) : <<"doc-", p>> \in DOMAIN boot.written
  /\ boot.failedAt # "none" => boot.pc = "failed" /\ ~boot.completed
  /\ (boot.documents = 0 /\ boot.pc # "failed") =>
       /\ ~boot.listed /\ ~boot.found /\ ~boot.created /\ ~boot.waited
       /\ boot.upserts = <<>> /\ boot.written = NoVectors

C25_StepListenOrStayFailed ==
  /\ (boot'.pc = "listening" /\ boot.pc # "listening") =>
       boot.pc = "initialized" /\ boot.completed /\ boot'.run = boot.run
  /\ (boot.pc = "failed" /\ boot'.run = boot.run) => boot'.pc = "failed"
  /\ (boot.pc = "start" /\ boot.documents = 0 /\ boot'.pc # "failed") =>
       boot'.pc = "initialized" /\ boot'.completed

\* C25: the server starts listening only after initializeVectorStore has
\* completed successfully; when initialization fails at any stage the server
\* never starts listening; when no documents are found initialization
\* completes without listing, creating or upserting into the index.
C25_ListenOnlyAfterInit == []C25_ListeningAfterSuccess /\ [][C25_StepListenOrStayFailed]_vars

\* The second upsert of a run failed after the first one had been stored.
C25_Witness ==
  /\ boot.pc = "failed" /\ boot.failedAt = "upserting"
  /\ Len(boot.upserts) = 2 /\ boot.written # NoVectors


C23_AtMostOneResponse ==
  \A r \in Reqs :
    /\ req[r].responses <= 1
    /\ req[r].pc = "done" <=> req[r].responses = 1

\* C23: every request eventually receives exactly one response, provided
\* each external call it makes eventually returns or fails: no request ends
\* without a response and none is answered twice.
C23_EventuallyOneResponse ==
  /\ \A r \in Reqs :
       (req[r].pc # "idle") ~> (req[r].pc = "done" /\ req[r].responses = 1)
  /\ []C23_AtMostOneResponse

\* Every request has been answered; one of them after its retrieval failed
\* and one after a plugin call and a failed generation call.
C23_Witness ==
  /\ \A r \in Reqs : req[r].pc = "done" /\ req[r].responses = 1
  /\ \E r \in Reqs : req[r].retrieval = "failed"
  /\ \E r \in Reqs : req[r].plugin = "ok" /\ req[r].generation = "failed"


\* Position of request q's message of the given role in the history of s;
\* 0 when it is not there.
PositionOf(s, q, role) ==
  IF \E i \in 1..Len(Hist(s)) : Hist(s)[i].rid = q /\ Hist(s)[i].role = role
  THEN CHOOSE i \in 1..Len(Hist(s)) : Hist(s)[i].rid = q /\ Hist(s)[i].role = role
  ELSE 0

\* The requests of r's session that were answered 200 before r arrived.
EarlierExchanges(r) ==
  {q \in Reqs : /\ q < r /\ req[q].session_id = req[r].session_id
                /\ req[q].status = 200}

\* No other request of r's session has been in flight since r arrived: the
\* others have not arrived, were rejected, or had recorded their reply
\* before r's user message was appended.
AloneInSession(r) ==
  \A q \in Reqs \ {r} :
    req[q].session_id = req[r].session_id =>
      \/ req[q].pc = "idle"
      \/ req[q].pc = "done" /\ req[q].status # 200 /\ req[q].appends = 0
      \/ /\ q \in EarlierExchanges(r)
         /\ PositionOf(req[r].session_id, q, "assistant")
              < PositionOf(req[r].session_id, r, "user")

C24_StepWindowWhenAlone ==
  \A r \in Reqs :
    (ReadsWindow(r) /\ AloneInSession(r)) =>
      LET w == req'[r].lastTwoMessages
          own == [role |-> "user", content |-> req[r].message, rid |-> r]
          earlier == EarlierExchanges(r)
      IN /\ Len(w) >= 1 /\ w[Len(w)] = own
         /\ earlier = {} => w = <<own>>
         /\ earlier # {} =>
              LET prev == CHOOSE q \in earlier : \A o \in earlier : o <= q
              IN w = <<[role |-> "assistant", content |-> req[prev].response,
                        rid |-> prev], own>>

C24_HistoryInEveryContext ==
  \A r \in Reqs :
    (Valid(r) /\ req[r].pc # "idle") =>
      /\ HasWindow(r) => Len(req[r].lastTwoMessages) >= 1
      /\ req[r].pc = "fetching" =>
           \E i \in 1..Len(req[r].context) : req[r].context[i].kind = "HistoryHeader"
      /\ Done(r) => req[r].generation # "none"

\* C24: with no other request of the session in flight, the window ends
\* with the request's own user message, is that message alone for the first
\* request of a session and [previous assistant reply, own user message]
\* for a later one; the window is never empty and the Conversation History
\* section is in the context of every valid request.
C24_OwnMessageClosesWindow ==
  [][C24_StepWindowWhenAlone]_vars /\ []C24_HistoryInEveryContext

====
